---- MODULE Spec2Model ----
(***************************************************************************)
(* Bulk ingestion and AI classification pipeline of the LCA microservice   *)
(* product controller: bulkUploadProducts, processProductAI (the           *)
(* classification orchestrator and its per-record pipelines),              *)
(* bulkImageUpload and triggerAIProcessing.                                *)
(*                                                                         *)
(* Every action is one turn of the Node event loop: the code that runs     *)
(* from the completion of one awaited operation up to the next await.      *)
(***************************************************************************)
EXTENDS Integers, Sequences, FiniteSets, TLC

(***************************************************************************)
(* Bounds of the model.                                                    *)
(***************************************************************************)
NumRecords == 2
MaxUploads == 2
MaxRows == 2

\* The record ids of the collection.
Records == 1..NumRecords

\* The HTTP calls in progress: one triggerAIProcessing call and two
\* bulkImageUpload calls of one account, each of which invokes
\* processProductAI.
TriggerRequests == {"trigger"}
ImageRequests == {"image", "image2"}
Requests == TriggerRequests \cup ImageRequests

(***************************************************************************)
(* Program constants and the values the collaborators can return.          *)
(***************************************************************************)
\* A retry count of two at the call sites.
RetryTwice == 1 + 1

\* The retries argument of the three retry(...) calls of the pipeline.
RetryCount == 1

FullResult == [category |-> "Cat", subcategory |-> "Sub"]
NoCategory == [category |-> "", subcategory |-> "Sub"]
NoSubcategory == [category |-> "Cat", subcategory |-> ""]
NullResult == [category |-> "", subcategory |-> ""]
ProductResults == {FullResult, NoCategory, NoSubcategory}

BOMResults == {1, 2}
ProcessResults == {1, 2}
NoBOM == 0
NoProcess == 0

\* The emissions calculator: two pure functions to numbers.
calculateRawMaterialEmissions(bom, country) == 10 * bom + country
calculateProcessEmissions(process) == 3 * process

\* countryOfOrigin of a record, read from the uploaded row.
countryOfOrigin(p) == p

VARIABLES
    product,     \* the record store: one document per record id
    upload,      \* the bulkUploadProducts call: position, inserted ids, response
    request,     \* the triggerAIProcessing / bulkImageUpload calls
    pipeline,    \* the per-record callbacks dispatched by processProductAI
    disk         \* the scratch area of bulkImageUpload on the file system

vars == <<product, upload, request, pipeline, disk>>

(***************************************************************************)
(* The record store.                                                       *)
(***************************************************************************)
\* The value of a property that is not set.
Undefined == "<undefined>"

\* A slot of the collection that holds no document yet. The slot p is the
\* place of the document whose code is p: the collection holds at most one
\* document per product code.
NoDocument ==
    [exists |-> FALSE, code |-> Undefined, name |-> Undefined,
     description |-> Undefined, weight |-> Undefined,
     aiProcessingStatus |-> "unset", category |-> "",
     subCategory |-> "", materials |-> NoBOM,
     productManufacturingProcess |-> NoProcess, co2Emission |-> 0,
     co2EmissionRawMaterials |-> 0, co2EmissionFromProcesses |-> 0,
     images |-> <<>>]

\* A document as insertMany stores a normalized row: no status, no AI fields.
SavedProduct(row) ==
    [NoDocument EXCEPT !.exists = TRUE, !.code = row.code, !.name = row.name,
                       !.description = row.description,
                       !.weight = row.weight]

\* A scan whose filter matches no stored status.
FindMisspelledStatus == {}

\* A scan without the status filter.
FindAll == {p \in Records : product[p].exists}

\* Product.find({aiProcessingStatus: 'pending'})
FindPending ==
    {p \in Records : product[p].exists /\ product[p].aiProcessingStatus = "pending"}

\* A status update that also resets the classification and the emissions.
SetStatusAndReset(store, p, s) ==
    IF store[p].exists
    THEN [store EXCEPT ![p] =
             [NoDocument EXCEPT !.exists = TRUE, !.code = store[p].code,
                                !.name = store[p].name,
                                !.description = store[p].description,
                                !.weight = store[p].weight,
                                !.images = store[p].images,
                                !.aiProcessingStatus = s]]
    ELSE store

\* Product.updateOne({_id}, {$set: {aiProcessingStatus: s}})
SetStatus(store, p, s) ==
    IF store[p].exists
    THEN [store EXCEPT ![p].aiProcessingStatus = s]
    ELSE store

\* A stamp whose filter selects every document.
StampAllDocuments(ids) == Records

\* The ids the pending stamp of bulkUploadProducts selects (line 189).
StampFilter(ids) == ids

\* A stamp that marks the documents as being processed.
StampProcessing(store, ids) ==
    [p \in Records |->
        IF p \in ids /\ store[p].exists
        THEN [store[p] EXCEPT !.aiProcessingStatus = "processing"]
        ELSE store[p]]

\* Product.updateMany({_id: {$in: ids}}, {$set: {aiProcessingStatus: 'pending'}})
StampPending(store, ids) ==
    [p \in Records |->
        IF p \in StampFilter(ids) /\ store[p].exists
        THEN [store[p] EXCEPT !.aiProcessingStatus = "pending"]
        ELSE store[p]]

\* A $set that leaves co2Emission out.
CompletedSetStaleTotal(p, doc, result, bom, process) ==
    [doc EXCEPT !.category = result.category,
                !.subCategory = result.subcategory,
                !.materials = bom,
                !.productManufacturingProcess = process,
                !.co2EmissionRawMaterials =
                    calculateRawMaterialEmissions(bom, countryOfOrigin(p)),
                !.co2EmissionFromProcesses = calculateProcessEmissions(process),
                !.aiProcessingStatus = "completed"]

\* A $set that leaves materials out.
CompletedSetKeepsMaterials(p, doc, result, bom, process) ==
    LET co2EmissionRawMaterials ==
            calculateRawMaterialEmissions(bom, countryOfOrigin(p))
        co2EmissionFromProcesses == calculateProcessEmissions(process)
    IN  [doc EXCEPT !.category = result.category,
                    !.subCategory = result.subcategory,
                    !.productManufacturingProcess = process,
                    !.co2Emission =
                        co2EmissionRawMaterials + co2EmissionFromProcesses,
                    !.co2EmissionRawMaterials = co2EmissionRawMaterials,
                    !.co2EmissionFromProcesses = co2EmissionFromProcesses,
                    !.aiProcessingStatus = "completed"]

\* The $set of the completed branch of the pipeline (260-275).
CompletedSet(p, doc, result, bom, process) ==
    LET co2EmissionRawMaterials ==
            calculateRawMaterialEmissions(bom, countryOfOrigin(p))
        co2EmissionFromProcesses == calculateProcessEmissions(process)
        co2Emission == co2EmissionRawMaterials + co2EmissionFromProcesses
    IN  [doc EXCEPT !.category = result.category,
                    !.subCategory = result.subcategory,
                    !.materials = bom,
                    !.productManufacturingProcess = process,
                    !.co2Emission = co2Emission,
                    !.co2EmissionRawMaterials = co2EmissionRawMaterials,
                    !.co2EmissionFromProcesses = co2EmissionFromProcesses,
                    !.aiProcessingStatus = "completed"]

(***************************************************************************)
(* The retry wrapper, retry(fn, args, retries): attempts are numbered from *)
(* 1; after a failed attempt the operation is invoked again while retries  *)
(* are left, and the last failure is propagated to the caller.             *)
(***************************************************************************)
RetryAgain(attempt, retries) == attempt <= retries

(***************************************************************************)
(* Initial state: an empty collection, no call in progress, empty disk.    *)
(***************************************************************************)
IdlePipeline ==
    [pc |-> "none", attempt |-> 0, classifyResult |-> NullResult,
     classifyBOMResult |-> NoBOM,
     classifyManufacturingProcessResult |-> NoProcess, error |-> "none"]

NoRequest == [file |-> FALSE]

NoData ==
    [missingMappings |-> <<>>, missingFields |-> <<>>,
     validationErrors |-> {}, savedProducts |-> {}]

IdleUpload ==
    [pc |-> "idle", req |-> NoRequest, ids |-> {}, response |-> "none",
     message |-> "", data |-> NoData]

NoName == [file |-> "", name |-> "", ext |-> ""]

IdleRequest ==
    [pc |-> "idle", response |-> "none", pendingProducts |-> {},
     originalname |-> NoName, saved |-> FALSE, extractionDir |-> FALSE,
     folders |-> {}, productCode |-> 0, urls |-> 0, attempt |-> 0,
     error |-> "none", cleanupError |-> "none", logged |-> "none",
     uploaded |-> <<>>]

Init ==
    /\ product = [p \in Records |-> NoDocument]
    /\ upload = IdleUpload
    /\ request = [r \in Requests |-> IdleRequest]
    /\ pipeline = [r \in Requests |-> [p \in Records |-> IdlePipeline]]
    /\ disk = [files |-> {}, dirs |-> {}]

(***************************************************************************)
(* bulkUploadProducts                                                      *)
(***************************************************************************)
\* The columns of an uploaded sheet, and the cells a parsed row can hold in
\* each: Undefined for a key the row object does not have, text for a cell
\* of a CSV file or a text cell of a spreadsheet, and Zero for a numeric
\* spreadsheet cell that holds 0 (sheet_to_json yields the number).
Columns == {"SKU", "Title", "Desc", "Wt"}

ProductCode(p) == ToString(p)

Zero == "<number 0>"

Cells ==
    [SKU |-> {Undefined, " ", Zero} \cup {ProductCode(p) : p \in Records},
     Title |-> {Undefined, "", "T"},
     Desc |-> {Undefined, "D"},
     Wt |-> {Undefined, "W"}]

ParsedRows ==
    {[SKU |-> a, Title |-> b, Desc |-> c, Wt |-> d] :
        a \in Cells.SKU, b \in Cells.Title, c \in Cells.Desc, d \in Cells.Wt}

\* product.hasOwnProperty(csvField)
hasOwnProperty(row, csvField) ==
    csvField \in Columns /\ row[csvField] # Undefined

\* 89-98: the field mappings of the request body; weight stands for the
\* five optional target fields, which the code treats alike.
fieldMappings(body) ==
    [code |-> body.codeField, name |-> body.nameField,
     description |-> body.descriptionField, weight |-> body.weightField]

SchemaFields == {"code", "name", "description", "weight"}

\* 101, 160
requiredMappings == <<"code", "name", "description">>

\* 102: requiredMappings.filter(field => !fieldMappings[field])
missingMappings(mappings) ==
    LET unmapped(field) == mappings[field] = Undefined
    IN  SelectSeq(requiredMappings, unmapped)

\* 115: Object.keys(products[0])
fileHeaders(products) == {c \in Columns : hasOwnProperty(products[1], c)}

\* 116-123: the columns of the required mappings that are no header.
missingFields(mappings, headers) ==
    LET mapped == [i \in 1..Len(requiredMappings) |->
                      mappings[requiredMappings[i]]]
        absent(csvField) == csvField \notin headers
    IN  SelectSeq(mapped, absent)

\* 140-156: one row under the mappings.
normalizedProduct(row, mappings) ==
    [schemaField \in SchemaFields |->
        IF mappings[schemaField] # Undefined
              /\ hasOwnProperty(row, mappings[schemaField])
        THEN row[mappings[schemaField]]
        ELSE Undefined]

\* 164: !product[field] || String(product[field]).trim() === '' ; the
\* negation is true of undefined, of '' and of the number 0.
IsBlank(value) == value \in {Undefined, "", Zero, " "}

\* A validation that looks at the first row only.
validationErrorsOfFirstRow(normalizedProducts) ==
    {<<2, field>> : field \in
        {f \in {"code", "name", "description"} :
            IsBlank(normalizedProducts[1][f])}}

\* 159-169: the keys "Row <index + 2>, <field>" of the error map, index
\* counted from 0.
validationErrors(normalizedProducts) ==
    {key \in (2..(Len(normalizedProducts) + 1))
                \X {"code", "name", "description"} :
        IsBlank(normalizedProducts[key[1] - 1][key[2]])}

\* 38-182: what the parsing and the validations make of a request: the
\* message of the 400 response and its data, or "ok" and the rows to insert.
Validate(req) ==
    LET mappings == fieldMappings(req.body)
        rows == [i \in 1..Len(req.products) |->
                    normalizedProduct(req.products[i], mappings)]
        none == [message |-> "ok", data |-> NoData, normalizedProducts |-> <<>>]
    IN  IF req.parsed # "ok"
        THEN [none EXCEPT !.message = req.parsed]
        ELSE IF Len(req.products) = 0
        THEN [none EXCEPT
                 !.message = "No products found in the uploaded file"]
        ELSE IF missingMappings(mappings) # <<>>
        THEN [none EXCEPT
                 !.message = "Required field mappings missing",
                 !.data.missingMappings = missingMappings(mappings)]
        ELSE IF missingFields(mappings, fileHeaders(req.products)) # <<>>
        THEN [none EXCEPT
                 !.message = "Mapped fields not found in uploaded file",
                 !.data.missingFields =
                     missingFields(mappings, fileHeaders(req.products))]
        ELSE IF validationErrors(rows) # {}
        THEN [none EXCEPT
                 !.message = "Validation failed",
                 !.data.validationErrors = validationErrors(rows)]
        ELSE [none EXCEPT !.normalizedProducts = rows]

\* The slot of the document with the given code; 0 for a value that is no
\* product code of the collection.
SlotOf(code) ==
    IF \E p \in Records : ProductCode(p) = code
    THEN CHOOSE p \in Records : ProductCode(p) = code
    ELSE 0

\* Lines 29-37: no file in the request (31-35), or the model lookup awaited.
UploadStart(req) ==
    /\ upload.pc \in {"idle", "done"}
    /\ upload' = IF req.file
                 THEN [IdleUpload EXCEPT !.pc = "model", !.req = req]
                 ELSE [IdleUpload EXCEPT !.pc = "done",
                                         !.response = "badRequest",
                                         !.message = "No file uploaded"]
    /\ UNCHANGED <<product, request, pipeline, disk>>

\* Line 37 rejects: the catch block answers 500 (197-204).
UploadModelFails ==
    /\ upload.pc = "model"
    /\ upload' = [IdleUpload EXCEPT !.pc = "done", !.response = "error",
                                    !.message = "Failed to upload products"]
    /\ UNCHANGED <<product, request, pipeline, disk>>

\* Lines 38-185: the file is parsed, mapped and validated, and the batch is
\* handed to insertMany, which stores it.
UploadInsert ==
    LET result == Validate(upload.req)
        rows == result.normalizedProducts
        ids == {SlotOf(rows[i].code) : i \in 1..Len(rows)}
    IN
    /\ upload.pc = "model"
    /\ result.message = "ok"
    /\ Cardinality(ids) = Len(rows)
    /\ ids \subseteq Records
    /\ \A p \in ids : ~product[p].exists
    /\ product' = [p \in Records |->
                      IF p \in ids
                      THEN SavedProduct(
                               CHOOSE row \in {rows[i] : i \in 1..Len(rows)} :
                                   SlotOf(row.code) = p)
                      ELSE product[p]]
    /\ upload' = [IdleUpload EXCEPT !.pc = "inserted", !.ids = ids]
    /\ UNCHANGED <<request, pipeline, disk>>

\* Line 185 rejects: nothing is stored and the catch block answers 500.
UploadInsertFails ==
    /\ upload.pc = "model"
    /\ Validate(upload.req).message = "ok"
    /\ upload' = [IdleUpload EXCEPT !.pc = "done", !.response = "error",
                                    !.message = "Failed to upload products"]
    /\ UNCHANGED <<product, request, pipeline, disk>>

\* Lines 38-182: a parse error, no rows, a missing mapping, a mapped column
\* missing from the header or a row without a required value: the call
\* answers 400 before any store operation.
UploadRejects ==
    LET result == Validate(upload.req) IN
    /\ upload.pc = "model"
    /\ result.message # "ok"
    /\ upload' = [IdleUpload EXCEPT !.pc = "done",
                                    !.response = "badRequest",
                                    !.message = result.message,
                                    !.data = result.data]
    /\ UNCHANGED <<product, request, pipeline, disk>>

\* Lines 188-196: the pending stamp lands and the records are returned.
UploadStamp ==
    /\ upload.pc = "inserted"
    /\ product' = StampPending(product, upload.ids)
    /\ upload' = [upload EXCEPT !.pc = "done", !.response = "created",
                                !.data.savedProducts = upload.ids]
    /\ UNCHANGED <<request, pipeline, disk>>

\* Lines 197-204: the stamp is rejected by the store.
UploadStampFails ==
    /\ upload.pc = "inserted"
    /\ upload' = [upload EXCEPT !.pc = "done", !.response = "error",
                                !.message = "Failed to upload products"]
    /\ UNCHANGED <<product, request, pipeline, disk>>

(***************************************************************************)
(* processProductAI: the scan and the dispatch                             *)
(***************************************************************************)
\* A dispatch that awaits every callback before it returns.
DispatchAwaited(r, pendingProducts) ==
    pipeline' = [pipeline EXCEPT ![r] =
        [p \in Records |->
            IF p \in pendingProducts
            THEN [IdlePipeline EXCEPT !.pc = "done"]
            ELSE pipeline[r][p]]]

\* Lines 222-228: forEach starts one callback per scanned record; each runs
\* up to its first await, the update to 'processing'.
Dispatch(r, pendingProducts) ==
    pipeline' = [pipeline EXCEPT ![r] =
        [p \in Records |->
            IF p \in pendingProducts
            THEN [IdlePipeline EXCEPT !.pc = "marking"]
            ELSE pipeline[r][p]]]

\* Lines 215-217: the store evaluates the scan.
ScanLands(r) ==
    /\ request[r].pc = "scanning"
    /\ request' = [request EXCEPT ![r].pc = "scanned",
                                  ![r].pendingProducts = FindPending]
    /\ UNCHANGED <<product, upload, pipeline, disk>>

(***************************************************************************)
(* triggerAIProcessing                                                     *)
(***************************************************************************)
\* Line 492 up to the scan of processProductAI.
TriggerStart(r) ==
    /\ r \in TriggerRequests
    /\ request[r].pc = "idle"
    /\ request' = [request EXCEPT ![r] =
                      [IdleRequest EXCEPT !.pc = "scanning"]]
    /\ UNCHANGED <<product, upload, pipeline, disk>>

\* The scan result arrives: dispatch (219-301), return, and the response
\* (493-497).
TriggerDispatch(r) ==
    /\ r \in TriggerRequests
    /\ request[r].pc = "scanned"
    /\ Dispatch(r, request[r].pendingProducts)
    /\ request' = [request EXCEPT ![r].pc = "done", ![r].response = "ok"]
    /\ UNCHANGED <<product, upload, disk>>

\* A failed scan that reaches the catch block of the caller (498-505).
TriggerScanFailsReported(r) ==
    /\ r \in TriggerRequests
    /\ request[r].pc = "scanning"
    /\ request' = [request EXCEPT ![r].pc = "done", ![r].response = "error",
                                  ![r].logged = "Error in processProductAI"]
    /\ UNCHANGED <<product, upload, pipeline, disk>>

\* The model lookup or the scan fails: caught and logged at 302-304, and the
\* caller responds as after a dispatch.
TriggerScanFails(r) ==
    /\ r \in TriggerRequests
    /\ request[r].pc = "scanning"
    /\ request' = [request EXCEPT ![r].pc = "done", ![r].response = "ok",
                                  ![r].logged = "Error in processProductAI"]
    /\ UNCHANGED <<product, upload, pipeline, disk>>

(***************************************************************************)
(* The per-record pipeline, lines 222-299                                  *)
(***************************************************************************)
ClassifyCalls ==
    {"classifyProduct", "classifyBOM", "classifyManufacturingProcess"}

Goto(r, p, run) == pipeline' = [pipeline EXCEPT ![r][p] = run]

\* One try around the whole loop: an error ends the other callbacks too.
RaiseAbortsBatch(r, p, error) ==
    pipeline' = [pipeline EXCEPT ![r] =
        [q \in Records |->
            IF q = p
            THEN [IdlePipeline EXCEPT !.pc = "catch", !.error = error]
            ELSE IF pipeline[r][q].pc \in {"done", "rejected"}
            THEN pipeline[r][q]
            ELSE IdlePipeline]]

\* An error thrown in the callback of record p is caught by the try of that
\* callback (223, 289-293): the update to 'failed' is issued; error is the
\* operation that threw.
Raise(r, p, error) ==
    pipeline' = [pipeline EXCEPT ![r][p] =
                    [IdlePipeline EXCEPT !.pc = "catch", !.error = error]]

\* 225-235: the update to 'processing' lands; classifyProduct is invoked.
MarkLands(r, p) ==
    /\ pipeline[r][p].pc = "marking"
    /\ product' = SetStatus(product, p, "processing")
    /\ Goto(r, p, [pipeline[r][p] EXCEPT !.pc = "classifyProduct",
                                         !.attempt = 1])
    /\ UNCHANGED <<upload, request, disk>>

MarkFails(r, p) ==
    /\ pipeline[r][p].pc = "marking"
    /\ Raise(r, p, "updateOne")
    /\ UNCHANGED <<product, upload, request, disk>>

\* An attempt of the classification call in flight fails: the retry wrapper
\* invokes it again or propagates the failure to the catch block.
CallFails(r, p) ==
    LET run == pipeline[r][p] IN
    /\ run.pc \in ClassifyCalls
    /\ IF RetryAgain(run.attempt, RetryCount)
       THEN Goto(r, p, [run EXCEPT !.attempt = run.attempt + 1])
       ELSE Raise(r, p, run.pc)
    /\ UNCHANGED <<product, upload, request, disk>>

\* 231-240: classifyProduct returns; classifyBOM is invoked.
ClassifyProductReturns(r, p, result) ==
    /\ pipeline[r][p].pc = "classifyProduct"
    /\ Goto(r, p, [pipeline[r][p] EXCEPT !.pc = "classifyBOM", !.attempt = 1,
                                         !.classifyResult = result])
    /\ UNCHANGED <<product, upload, request, disk>>

\* 241-245: the fourth argument of the classifyManufacturingProcess call of
\* a run: the constant classifyBOMResult of the callback.
ManufacturingProcessArgs(run) == run.classifyBOMResult

\* A call of classifyManufacturingProcess without the BOM result.
ClassifyBOMReturnsUnused(r, p, bom) ==
    /\ pipeline[r][p].pc = "classifyBOM"
    /\ Goto(r, p, [pipeline[r][p] EXCEPT
                      !.pc = "classifyManufacturingProcess", !.attempt = 1])
    /\ UNCHANGED <<product, upload, request, disk>>

\* 236-245: classifyBOM returns; classifyManufacturingProcess is invoked.
ClassifyBOMReturns(r, p, bom) ==
    /\ pipeline[r][p].pc = "classifyBOM"
    /\ Goto(r, p, [pipeline[r][p] EXCEPT
                      !.pc = "classifyManufacturingProcess", !.attempt = 1,
                      !.classifyBOMResult = bom])
    /\ UNCHANGED <<product, upload, request, disk>>

\* A test of the category alone.
HasCategory(result) == result.category # ""

\* 259: classifyResult?.category && classifyResult?.subcategory
HasCategoryAndSubcategory(result) ==
    result.category # "" /\ result.subcategory # ""

\* 241-284: classifyManufacturingProcess returns; the emissions are computed
\* and the update of the chosen branch is issued.
ClassifyManufacturingProcessReturns(r, p, process) ==
    LET run == pipeline[r][p] IN
    /\ run.pc = "classifyManufacturingProcess"
    /\ IF HasCategoryAndSubcategory(run.classifyResult)
       THEN Goto(r, p, [run EXCEPT !.pc = "writeCompleted", !.attempt = 0,
                           !.classifyManufacturingProcessResult = process])
       ELSE Goto(r, p, [run EXCEPT !.pc = "writeFailed", !.attempt = 0,
                           !.classifyBOMResult = NoBOM])
    /\ UNCHANGED <<product, upload, request, disk>>

\* 260-279: the update of the completed branch lands.
CompletedLands(r, p) ==
    LET run == pipeline[r][p] IN
    /\ run.pc = "writeCompleted"
    /\ product' =
          IF product[p].exists
          THEN [product EXCEPT ![p] =
                   CompletedSet(p, product[p], run.classifyResult,
                                run.classifyBOMResult,
                                run.classifyManufacturingProcessResult)]
          ELSE product
    /\ Goto(r, p, [run EXCEPT !.pc = "done", !.classifyBOMResult = NoBOM,
                      !.classifyManufacturingProcessResult = NoProcess])
    /\ UNCHANGED <<upload, request, disk>>

\* 281-288: the update of the else branch lands.
FailedLands(r, p) ==
    /\ pipeline[r][p].pc = "writeFailed"
    /\ product' = SetStatus(product, p, "failed")
    /\ Goto(r, p, [pipeline[r][p] EXCEPT !.pc = "done"])
    /\ UNCHANGED <<upload, request, disk>>

\* 260-284: the final update is rejected by the store and the error caught.
FinalWriteFails(r, p) ==
    /\ pipeline[r][p].pc \in {"writeCompleted", "writeFailed"}
    /\ Raise(r, p, "updateOne")
    /\ UNCHANGED <<product, upload, request, disk>>

\* A catch block that logs the error and writes nothing.
CatchLogsOnly(r, p) ==
    /\ pipeline[r][p].pc = "catch"
    /\ Goto(r, p, [pipeline[r][p] EXCEPT !.pc = "done"])
    /\ UNCHANGED <<product, upload, request, disk>>

\* 290-297: the update of the catch block lands.
CatchLands(r, p) ==
    /\ pipeline[r][p].pc = "catch"
    /\ product' = SetStatus(product, p, "failed")
    /\ Goto(r, p, [pipeline[r][p] EXCEPT !.pc = "done"])
    /\ UNCHANGED <<upload, request, disk>>

\* 290-293: the update of the catch block is rejected: the callback's promise
\* rejects with nobody awaiting it.
CatchFails(r, p) ==
    /\ pipeline[r][p].pc = "catch"
    /\ Goto(r, p, [pipeline[r][p] EXCEPT !.pc = "rejected"])
    /\ UNCHANGED <<product, upload, request, disk>>

PipelineStep(r, p) ==
    \/ MarkLands(r, p)
    \/ MarkFails(r, p)
    \/ CallFails(r, p)
    \/ \E result \in ProductResults : ClassifyProductReturns(r, p, result)
    \/ \E bom \in BOMResults : ClassifyBOMReturns(r, p, bom)
    \/ \E process \in ProcessResults :
          ClassifyManufacturingProcessReturns(r, p, process)
    \/ CompletedLands(r, p)
    \/ FailedLands(r, p)
    \/ FinalWriteFails(r, p)
    \/ CatchLands(r, p)
    \/ CatchFails(r, p)

(***************************************************************************)
(* bulkImageUpload                                                         *)
(***************************************************************************)
\* req.file.originalname with path.parse(..).name and path.extname(..); a
\* name without extension names the same path as its extraction directory.
OriginalNames ==
    {[file |-> "batch.zip", name |-> "batch", ext |-> ".zip"],
     [file |-> "batch.rar", name |-> "batch", ext |-> ".rar"],
     [file |-> "batch.txt", name |-> "batch", ext |-> ".txt"],
     [file |-> "batch", name |-> "batch", ext |-> ""]}

\* The names of the top-level folders of an archive: a product code, or 0
\* for a name that is no product's code.
FolderNames == Records \cup {0}

\* fs.existsSync(path)
ExistsSync(d, path) == path \in d.files \/ path \in d.dirs

\* fs.removeSync(path) and fs.unlinkSync(path), when they succeed.
RemoveSync(d, path) ==
    [files |-> d.files \ {path}, dirs |-> d.dirs \ {path}]

\* A finally block that removes the extraction directory only.
CleanupDirectoryOnly(d, req, failure) ==
    LET removeDir == req.extractionDir /\ ExistsSync(d, req.originalname.name)
    IN  [disk |-> IF removeDir /\ failure # "removeSync"
                  THEN RemoveSync(d, req.originalname.name)
                  ELSE d,
         cleanupError |-> IF removeDir /\ failure = "removeSync"
                          THEN "removeSync" ELSE "none"]

\* Lines 470-486, the finally block; failure is the removal that throws, if
\* any: both removals share one try, so the first throw ends the cleanup.
Cleanup(d, req, failure) ==
    LET removeDir == req.extractionDir /\ ExistsSync(d, req.originalname.name)
        d1 == IF removeDir /\ failure # "removeSync"
              THEN RemoveSync(d, req.originalname.name)
              ELSE d
        thrown1 == removeDir /\ failure = "removeSync"
        removeFile == ~thrown1 /\ ExistsSync(d1, req.originalname.file)
        d2 == IF removeFile /\ failure # "unlinkSync"
              THEN RemoveSync(d1, req.originalname.file)
              ELSE d1
        thrown2 == removeFile /\ failure = "unlinkSync"
    IN  [disk |-> d2,
         cleanupError |-> IF thrown1 THEN "removeSync"
                          ELSE IF thrown2 THEN "unlinkSync" ELSE "none"]

CleanupFailures == {"none", "removeSync", "unlinkSync"}

\* A finally block whose error replaces the response of the call.
FinishReportsCleanup(r, req, d, response) ==
    \E failure \in CleanupFailures :
        LET c == Cleanup(d, req, failure) IN
        /\ c.cleanupError = failure
        /\ disk' = c.disk
        /\ request' = [request EXCEPT ![r] =
                          [req EXCEPT !.pc = "done",
                                      !.response =
                                          IF c.cleanupError = "none"
                                          THEN response ELSE "error",
                                      !.cleanupError = c.cleanupError,
                                      !.folders = {}, !.productCode = 0,
                                      !.attempt = 0]]

\* The call ends: the response is sent (458-469) and the finally block runs.
Finish(r, req, d, response) ==
    \E failure \in CleanupFailures :
        LET c == Cleanup(d, req, failure) IN
        /\ c.cleanupError = failure
        /\ disk' = c.disk
        /\ request' = [request EXCEPT ![r] =
                          [req EXCEPT !.pc = "done", !.response = response,
                                      !.cleanupError = c.cleanupError,
                                      !.folders = {}, !.productCode = 0,
                                      !.attempt = 0]]

\* Lines 380-386: no file in the request.
ImageNoFile(r) ==
    /\ r \in ImageRequests
    /\ request[r].pc = "idle"
    /\ request' = [request EXCEPT ![r] =
                      [IdleRequest EXCEPT !.pc = "done",
                                          !.response = "badRequest"]]
    /\ UNCHANGED <<product, upload, pipeline, disk>>

\* Lines 388-394: the paths are computed and the model lookup awaited.
ImageStart(r, originalname) ==
    /\ r \in ImageRequests
    /\ request[r].pc = "idle"
    /\ request' = [request EXCEPT ![r] =
                      [IdleRequest EXCEPT !.pc = "model",
                                          !.originalname = originalname]]
    /\ UNCHANGED <<product, upload, pipeline, disk>>

\* Line 394 rejects: catch and finally, with extractionDir still undefined.
ImageModelFails(r) ==
    /\ r \in ImageRequests
    /\ request[r].pc = "model"
    /\ Finish(r, [request[r] EXCEPT !.error = "getProductModel"], disk,
              "error")
    /\ UNCHANGED <<product, upload, pipeline>>

\* Lines 396-417: the archive is saved, the extraction directory created and
\* the extraction started; error is the file-system call that throws, if any.
ImagePrepare(r, error) ==
    LET req == request[r]
        file == req.originalname.file
        dir == req.originalname.name
        writeThrows == error = "writeFileSync" \/ file \in disk.dirs
        d1 == [disk EXCEPT !.files = @ \cup {file}]
        req1 == [req EXCEPT !.saved = TRUE, !.extractionDir = TRUE]
        mkdirThrows == error = "ensureDirSync" \/ dir \in d1.files
        d2 == [d1 EXCEPT !.dirs = @ \cup {dir}]
    IN
    /\ r \in ImageRequests
    /\ req.pc = "model"
    /\ IF writeThrows
       THEN Finish(r, [req EXCEPT !.error = "writeFileSync"], disk, "error")
       ELSE IF mkdirThrows
       THEN Finish(r, [req1 EXCEPT !.error = "ensureDirSync"], d1, "error")
       ELSE IF req.originalname.ext \in {".zip", ".rar"}
       THEN /\ error = "none"
            /\ disk' = d2
            /\ request' = [request EXCEPT ![r] =
                              [req1 EXCEPT !.pc = "extracting"]]
       ELSE /\ error = "none"
            /\ Finish(r, [req1 EXCEPT !.error = "Unsupported file type"], d2,
                      "error")
    /\ UNCHANGED <<product, upload, pipeline>>

PrepareErrors == {"none", "writeFileSync", "ensureDirSync"}

\* Lines 412/414 reject: the archive cannot be extracted.
ImageExtractFails(r) ==
    /\ r \in ImageRequests
    /\ request[r].pc = "extracting"
    /\ Finish(r, [request[r] EXCEPT !.error = "extract"], disk, "error")
    /\ UNCHANGED <<product, upload, pipeline>>

\* Loops that end with the response, without the call of line 456.
AdvanceNoTrigger(r, req, next, code) ==
    /\ next = "end"
    /\ Finish(r, req, disk, "ok")
    /\ UNCHANGED pipeline

\* Lines 420-440 and 451-456: the loops run on from the current position to
\* the next await. next is what the archive holds there: "image", one more
\* image in the current folder; "folder", a later folder with an image
\* (entries without images are passed over), whose name is a product code
\* not met before or no product's code; "end", nothing more. An archive
\* holds at most MaxUploads images.
Advance(r, req, next, code) ==
    IF next = "end"
    THEN /\ request' = [request EXCEPT ![r] = [req EXCEPT !.pc = "scanning"]]
         /\ UNCHANGED <<disk, pipeline>>
    ELSE IF ~(req.originalname.name \in disk.dirs)
    THEN \* readdirSync / statSync throw: the directory is gone
         /\ Finish(r, [req EXCEPT !.error = "readdirSync"], disk, "error")
         /\ UNCHANGED pipeline
    ELSE IF next = "image"
    THEN /\ req.folders # {}
         /\ req.urls < MaxUploads
         /\ code = req.productCode
         /\ request' = [request EXCEPT ![r] =
                           [req EXCEPT !.pc = "uploading", !.attempt = 1]]
         /\ UNCHANGED <<disk, pipeline>>
    ELSE /\ next = "folder"
         /\ req.urls < MaxUploads
         /\ code \in Records => code \notin req.folders
         /\ request' = [request EXCEPT ![r] =
                           [req EXCEPT !.pc = "uploading", !.attempt = 1,
                                       !.folders = req.folders \cup {code},
                                       !.productCode = code]]
         /\ UNCHANGED <<disk, pipeline>>

NextEntries == {"image", "folder", "end"}

\* Lines 412-440: the extraction is over and the folders are read.
ImageExtracted(r, next, code) ==
    /\ r \in ImageRequests
    /\ request[r].pc = "extracting"
    /\ Advance(r, request[r], next, code)
    /\ UNCHANGED <<product, upload>>

\* An acknowledged upload followed at once by the next upload, the $push
\* left for later.
ImageUploadedStartsNext(r) ==
    /\ r \in ImageRequests
    /\ request[r].pc = "uploading"
    /\ request[r].urls + 1 < MaxUploads
    /\ request' = [request EXCEPT ![r].urls = request[r].urls + 1]
    /\ UNCHANGED <<product, upload, pipeline, disk>>

\* Lines 440-447: the upload is acknowledged and the $push issued.
ImageUploaded(r) ==
    /\ r \in ImageRequests
    /\ request[r].pc = "uploading"
    /\ request' = [request EXCEPT ![r].pc = "pushing", ![r].attempt = 0,
                                  ![r].urls = request[r].urls + 1]
    /\ UNCHANGED <<product, upload, pipeline, disk>>

\* A failed upload that unlinks the images the call has pushed so far.
ImageUploadFailsRollsBack(r) ==
    /\ r \in ImageRequests
    /\ request[r].pc = "uploading"
    /\ product' = [p \in Records |-> [product[p] EXCEPT !.images = <<>>]]
    /\ Finish(r, [request[r] EXCEPT !.error = "uploadImageToExternalAPI"],
              disk, "error")
    /\ UNCHANGED <<upload, pipeline>>

\* Line 440 rejects: uploadImageToExternalAPI posts once (319) and rethrows
\* (344), and the call site awaits it directly.
ImageUploadFails(r) ==
    /\ r \in ImageRequests
    /\ request[r].pc = "uploading"
    /\ Finish(r, [request[r] EXCEPT !.error = "uploadImageToExternalAPI"],
              disk, "error")
    /\ UNCHANGED <<product, upload, pipeline>>

\* The images of the call whose upload was acknowledged and whose $push has
\* been issued (440-447), in this order: for each the product code of its
\* folder when a document has that code at the time the store gets the
\* $push, and 0 when none has.
Uploaded(req, store) ==
    Append(req.uploaded,
           IF req.productCode \in Records /\ store[req.productCode].exists
           THEN req.productCode ELSE 0)

\* A $push that appends the URL twice.
PushImageTwice(store, code, downloadUrl) ==
    IF code \in Records /\ store[code].exists
    THEN [store EXCEPT ![code].images = Append(Append(@, downloadUrl),
                                               downloadUrl)]
    ELSE store

\* A $push with an upsert: a code that matches no document creates one.
PushImageUpsert(store, code, downloadUrl) ==
    IF code \in Records /\ store[code].exists
    THEN [store EXCEPT ![code].images = Append(@, downloadUrl)]
    ELSE [store EXCEPT ![1] = [NoDocument EXCEPT
                                  !.exists = TRUE,
                                  !.images = <<downloadUrl>>]]

\* A $push at position 0: the URL becomes the first of the images.
PushImageFirst(store, code, downloadUrl) ==
    IF code \in Records /\ store[code].exists
    THEN [store EXCEPT ![code].images = <<downloadUrl>> \o @]
    ELSE store

\* Product.updateOne({code: productCode}, {$push: {images: downloadUrl}})
PushImage(store, code, downloadUrl) ==
    IF code \in Records /\ store[code].exists
    THEN [store EXCEPT ![code].images = Append(@, downloadUrl)]
    ELSE store

\* Lines 444-456: the $push lands and the loops run on.
ImagePushed(r, next, code) ==
    /\ r \in ImageRequests
    /\ request[r].pc = "pushing"
    /\ product' = PushImage(product, request[r].productCode,
                            <<r, request[r].urls>>)
    /\ Advance(r, [request[r] EXCEPT !.uploaded =
                                       Uploaded(request[r], product)],
               next, code)
    /\ UNCHANGED upload

\* A failed update after which the classification is started all the same.
ImagePushFailsThenDispatches(r) ==
    /\ r \in ImageRequests
    /\ request[r].pc = "pushing"
    /\ Dispatch(r, FindPending)
    /\ Finish(r, [request[r] EXCEPT !.error = "updateOne",
                                    !.pendingProducts = FindPending],
              disk, "error")
    /\ UNCHANGED <<product, upload>>

\* Line 444 rejects.
ImagePushFails(r) ==
    /\ r \in ImageRequests
    /\ request[r].pc = "pushing"
    /\ Finish(r, [request[r] EXCEPT !.error = "updateOne",
                                    !.uploaded =
                                        Uploaded(request[r], product)],
              disk, "error")
    /\ UNCHANGED <<product, upload, pipeline>>

\* The scan result arrives: dispatch (219-301), return, the response
\* (458-462) and the finally block.
ImageDispatch(r) ==
    /\ r \in ImageRequests
    /\ request[r].pc = "scanned"
    /\ Dispatch(r, request[r].pendingProducts)
    /\ Finish(r, request[r], disk, "ok")
    /\ UNCHANGED <<product, upload>>

\* The model lookup or the scan of processProductAI fails: caught and logged
\* at 302-304, and the caller goes on as after a dispatch.
ImageScanFails(r) ==
    /\ r \in ImageRequests
    /\ request[r].pc = "scanning"
    /\ Finish(r, [request[r] EXCEPT !.logged = "Error in processProductAI"],
              disk, "ok")
    /\ UNCHANGED <<product, upload, pipeline>>

ImageStep(r, names) ==
    \/ ImageNoFile(r)
    \/ \E originalname \in names : ImageStart(r, originalname)
    \/ ImageModelFails(r)
    \/ \E error \in PrepareErrors : ImagePrepare(r, error)
    \/ ImageExtractFails(r)
    \/ \E next \in NextEntries, code \in FolderNames :
          ImageExtracted(r, next, code)
    \/ ImageUploaded(r)
    \/ ImageUploadFails(r)
    \/ \E next \in NextEntries, code \in FolderNames :
          ImagePushed(r, next, code)
    \/ ImagePushFails(r)
    \/ ImageDispatch(r)
    \/ ImageScanFails(r)

\* A request body that maps every target field to its column.
FullBody ==
    [codeField |-> "SKU", nameField |-> "Title", descriptionField |-> "Desc",
     weightField |-> "Wt"]

\* The rows of a sheet that lists the given product codes in ascending order,
\* every cell filled.
RECURSIVE CatalogRows(_)
CatalogRows(codes) ==
    IF codes = {}
    THEN <<>>
    ELSE LET last == CHOOSE p \in codes : \A q \in codes : q <= p
         IN  Append(CatalogRows(codes \ {last}),
                    [SKU |-> ProductCode(last), Title |-> "T", Desc |-> "D",
                     Wt |-> "W"])

\* The uploads of the scenarios that are about the classification and the
\* images: a sheet that lists some of the given product codes, none of them
\* in the collection yet.
CatalogUploads(records) ==
    {[file |-> TRUE, parsed |-> "ok", products |-> CatalogRows(codes),
      body |-> FullBody] :
        codes \in SUBSET {p \in records : ~product[p].exists} \ {{}}}

\* bulkUploadProducts in those scenarios: the calls that reach the store.
\* The rejections and the failures before the insert change nothing but the
\* response; they are part of the validation scenario.
CatalogStep(records) ==
    \/ \E req \in CatalogUploads(records) : UploadStart(req)
    \/ UploadInsert
    \/ UploadStamp
    \/ UploadStampFails

TriggerStep(r) ==
    \/ TriggerStart(r)
    \/ TriggerDispatch(r)
    \/ TriggerScanFails(r)

\* The overlap scenario: the triggerAIProcessing call and one bulkImageUpload
\* call, on a collection of one record.
RaceRecords == {1}
RaceRequests == {"trigger", "image"}

Next ==
    \/ CatalogStep(RaceRecords)
    \/ \E r \in RaceRequests : ScanLands(r)
    \/ \E r \in RaceRequests : TriggerStep(r)
    \/ \E r \in RaceRequests : ImageStep(r, OriginalNames)
    \/ \E r \in RaceRequests, p \in Records : PipelineStep(r, p)

Spec == Init /\ [][Next]_vars

\* The batch scenario: the triggerAIProcessing call, every record.
NextBatchT ==
    \/ CatalogStep(Records)
    \/ \E r \in TriggerRequests : ScanLands(r)
    \/ \E r \in TriggerRequests : TriggerStep(r)
    \/ \E r \in TriggerRequests, p \in Records : PipelineStep(r, p)

SpecBatchT == Init /\ [][NextBatchT]_vars

\* The image scenario: the bulkImageUpload call, with a .zip archive, on a
\* collection of two records.
BatchRecords == {1, 2}
BatchRequests == {"image"}
ZipNames == {n \in OriginalNames : n.ext = ".zip"}

NextBatchI ==
    \/ CatalogStep(BatchRecords)
    \/ \E r \in BatchRequests : ScanLands(r)
    \/ \E r \in BatchRequests : ImageStep(r, ZipNames)
    \/ \E r \in BatchRequests, p \in Records : PipelineStep(r, p)

SpecBatchI == Init /\ [][NextBatchI]_vars

\* The shared scratch scenario: two bulkImageUpload calls of one account in
\* progress together, on an empty collection.
NextImages ==
    \/ \E r \in ImageRequests : ScanLands(r)
    \/ \E r \in ImageRequests : ImageStep(r, OriginalNames)

SpecImages == Init /\ [][NextImages]_vars

\* The validation scenario: one bulkUploadProducts call on an empty
\* collection, with any sheet of at most MaxRows rows under any of the
\* request bodies, or with a file that cannot be parsed.
Sheets == UNION {[1..n -> ParsedRows] : n \in 0..MaxRows}

UploadBodies ==
    [codeField : {Undefined, "SKU"}, nameField : {"Title"},
     descriptionField : {Undefined, "Desc"}, weightField : {Undefined, "Wt"}]

UploadRequests ==
    {NoRequest} \cup
    {[file |-> TRUE, parsed |-> error, products |-> <<>>, body |-> FullBody] :
        error \in {"CSV parsing error", "Sheet not found in Excel file"}}
    \cup
    {[file |-> TRUE, parsed |-> "ok", products |-> products, body |-> body] :
        products \in Sheets, body \in UploadBodies}

NextUpload ==
    \/ upload.pc = "idle" /\ \E req \in UploadRequests : UploadStart(req)
    \/ UploadModelFails
    \/ UploadInsert
    \/ UploadInsertFails
    \/ UploadRejects
    \/ UploadStamp
    \/ UploadStampFails

SpecUpload == Init /\ [][NextUpload]_vars

\* The termination scenario: the overlap scenario with .zip archives, in
\* which every update of a pipeline run is accepted by the store. A
\* dispatched callback is resumed by the event loop whenever the operation
\* it awaits has settled, and every classification call returns or fails:
\* weak fairness on the steps of each run.
SettlingStep(r, p) ==
    \/ MarkLands(r, p)
    \/ CallFails(r, p)
    \/ \E result \in ProductResults : ClassifyProductReturns(r, p, result)
    \/ \E bom \in BOMResults : ClassifyBOMReturns(r, p, bom)
    \/ \E process \in ProcessResults :
          ClassifyManufacturingProcessReturns(r, p, process)
    \/ CompletedLands(r, p)
    \/ FailedLands(r, p)
    \/ CatchLands(r, p)

NextSettling ==
    \/ CatalogStep(RaceRecords)
    \/ \E r \in RaceRequests : ScanLands(r)
    \/ \E r \in RaceRequests : TriggerStep(r)
    \/ \E r \in RaceRequests : ImageStep(r, ZipNames)
    \/ \E r \in RaceRequests, p \in Records : SettlingStep(r, p)

SpecSettling ==
    /\ Init
    /\ [][NextSettling]_vars
    /\ \A r \in RaceRequests, p \in Records : WF_vars(SettlingStep(r, p))

(***************************************************************************)
(* Properties                                                              *)
(***************************************************************************)
Status(p) == product[p].aiProcessingStatus
InFlight(run) == run.pc \notin {"none", "done", "rejected"}
PendingNow ==
    {p \in Records : product[p].exists /\ Status(p) = "pending"}

\* C1: every change of a record's aiProcessingStatus, once the record is
\* stamped, is pending->processing, processing->completed or
\* processing->failed.
C1_OnlyForwardTransitions ==
    [][\A p \in Records :
          (product[p].exists /\ Status(p) # "unset"
             /\ product'[p].aiProcessingStatus # Status(p))
          => <<Status(p), product'[p].aiProcessingStatus>> \in
                {<<"pending", "processing">>, <<"processing", "completed">>,
                 <<"processing", "failed">>}]_vars

\* C2: no step takes a record from processing, completed or failed back to
\* pending, and a step that makes a record pending is the stamp of the
\* upload call that inserted it.
C2_NeverBackToPending ==
    [][\A p \in Records :
          /\ Status(p) \in {"processing", "completed", "failed"}
                => product'[p].aiProcessingStatus \in
                      {"processing", "completed", "failed"}
          /\ (product'[p].aiProcessingStatus = "pending"
                /\ Status(p) # "pending")
                => /\ product[p].exists
                   /\ Status(p) = "unset"
                   /\ upload.pc = "inserted"
                   /\ p \in upload.ids]_vars

\* C2 witness: a later upload call has stamped its own record while a record
\* of an earlier call had already been taken up by an orchestrator run.
C2_Witness ==
    /\ upload.pc = "done"
    /\ upload.response = "created"
    /\ upload.ids = {2}
    /\ Status(2) = "pending"
    /\ Status(1) \in {"processing", "completed", "failed"}
    /\ product[1].images # <<>>

\* C3: every completed record has co2Emission = co2EmissionRawMaterials +
\* co2EmissionFromProcesses.
C3_EmissionSum ==
    \A p \in Records :
        (product[p].exists /\ Status(p) = "completed")
        => product[p].co2Emission =
              product[p].co2EmissionRawMaterials
                 + product[p].co2EmissionFromProcesses

\* C3 witness: two overlapping runs have both written the completed update
\* to the same record.
C3_Witness ==
    \E p \in Records :
        /\ Status(p) = "completed"
        /\ \A r \in RaceRequests :
              /\ pipeline[r][p].pc = "done"
              /\ pipeline[r][p].error = "none"
              /\ pipeline[r][p].classifyResult = FullResult

\* C4: a run whose classifyProduct result lacks the category or the
\* subcategory issues the update to 'failed' whatever classifyBOM and
\* classifyManufacturingProcess return, and no step of it writes 'completed'.
C4_LackingResultFails ==
    [][\A r \in Requests, p \in Records :
          LET run == pipeline[r][p]
              after == pipeline'[r][p]
          IN  (/\ run.pc \in {"classifyBOM", "classifyManufacturingProcess",
                              "writeCompleted", "writeFailed"}
               /\ (run.classifyResult.category = ""
                     \/ run.classifyResult.subcategory = "")
               /\ after # run)
              => /\ after.pc # "writeCompleted"
                 /\ run.pc # "writeCompleted"
                 /\ (run.pc = "classifyManufacturingProcess"
                       /\ after.pc \notin {run.pc, "catch"})
                       => after.pc = "writeFailed"
                 /\ after.pc = "done"
                       => product'[p].aiProcessingStatus = "failed"
                 /\ product'[p] # product[p]
                       => product'[p].aiProcessingStatus = "failed"]_vars

\* C4 witness: a run with a result without subcategory has written 'failed'.
C4_Witness ==
    \E r \in Requests, p \in Records :
        /\ pipeline[r][p].pc = "done"
        /\ pipeline[r][p].error = "none"
        /\ pipeline[r][p].classifyResult = NoSubcategory
        /\ Status(p) = "failed"

\* Every scanned record has a run, a run that is not over can take its next
\* step, and a run that caught a classification failure left its record failed.
C5_Siblings ==
    \A r \in Requests :
        request[r].pc = "done"
        => \A q \in request[r].pendingProducts :
              /\ pipeline[r][q].pc # "none"
              /\ InFlight(pipeline[r][q]) => ENABLED PipelineStep(r, q)
              /\ (pipeline[r][q].pc = "done"
                    /\ pipeline[r][q].error \in ClassifyCalls)
                    => Status(q) = "failed"

\* The steps of a failing run leave the sibling runs and documents alone.
C5_Step ==
    \A r \in Requests, p \in Records :
        LET run == pipeline[r][p]
            after == pipeline'[r][p]
        IN  /\ (run.pc \in ClassifyCalls /\ after.pc = "catch")
               => /\ after.error = run.pc
                  /\ \A q \in Records \ {p} :
                        /\ pipeline'[r][q] = pipeline[r][q]
                        /\ product'[q] = product[q]
            /\ (run.pc = "catch" /\ after # run)
               => /\ after.pc = "done"
                     => product'[p].aiProcessingStatus = "failed"
                  /\ \A q \in Records \ {p} :
                        /\ pipeline'[r][q] = pipeline[r][q]
                        /\ product'[q] = product[q]

\* C5: when a classification call of a record's run has failed on its retry
\* the run issues the update to 'failed' and the record ends failed; no step
\* of that run touches the run or the document of a sibling record of the
\* same scan; every scanned record has a run, and a run that is not over can
\* take its next step.
C5_ErrorIsolated == [](C5_Siblings) /\ [][C5_Step]_vars

\* C5 witness: one record of a scan failed after its classifyBOM call had
\* failed twice, and its sibling of the same scan was completed.
C5_Witness ==
    \E r \in Requests, p \in Records, q \in Records :
        /\ p # q
        /\ pipeline[r][p].pc = "done"
        /\ pipeline[r][p].error = "classifyBOM"
        /\ Status(p) = "failed"
        /\ pipeline[r][q].pc = "done"
        /\ pipeline[r][q].error = "none"
        /\ Status(q) = "completed"

\* The attempt counter of a call in flight.
C6_Attempts ==
    \A r \in Requests, p \in Records :
        pipeline[r][p].pc \in ClassifyCalls
        => pipeline[r][p].attempt \in {1, 2}

\* The steps a run takes out of a classification call.
C6_Step ==
    \A r \in Requests, p \in Records :
        LET run == pipeline[r][p]
            after == pipeline'[r][p]
        IN  (run.pc \in ClassifyCalls /\ after # run)
            => \/ /\ after.pc = run.pc
                  /\ run.attempt = 1
                  /\ after = [run EXCEPT !.attempt = 2]
               \/ /\ after.pc = "catch"
                  /\ run.attempt = 2
                  /\ after.error = run.pc
               \/ /\ run.pc = "classifyProduct"
                  /\ after.pc = "classifyBOM"
                  /\ after.attempt = 1
                  /\ after.classifyResult \in ProductResults
               \/ /\ run.pc = "classifyBOM"
                  /\ after.pc = "classifyManufacturingProcess"
                  /\ after.attempt = 1
                  /\ after.classifyBOMResult \in BOMResults
                  /\ after.classifyResult = run.classifyResult
               \/ /\ run.pc = "classifyManufacturingProcess"
                  /\ after.pc \in {"writeCompleted", "writeFailed"}
                  /\ after.classifyResult = run.classifyResult
                  /\ after.pc = "writeCompleted"
                        => /\ after.classifyManufacturingProcessResult
                                 \in ProcessResults
                           /\ after.classifyBOMResult = run.classifyBOMResult

\* C6: each classification call is attempted at most twice; the second
\* attempt follows a failed first attempt; a failure reaches the catch block
\* only from the second attempt; a success hands its result to the run.
C6_RetryOnce == [](C6_Attempts) /\ [][C6_Step]_vars

\* C6 witness: a run completed its record although the first attempt of a
\* call had failed: the second attempt of classifyManufacturingProcess is in
\* flight after two calls that returned.
C6_Witness ==
    \E r \in Requests, p \in Records :
        /\ pipeline[r][p].pc = "classifyManufacturingProcess"
        /\ pipeline[r][p].attempt = 2
        /\ pipeline[r][p].classifyBOMResult \in BOMResults

\* The scan step takes up every pending record.
C7_Step ==
    \A r \in Requests :
        (request[r].pc = "scanning" /\ request'[r].pc = "scanned")
        => \A p \in PendingNow : p \in request'[r].pendingProducts

\* A run in flight belongs to a record of its invocation's scan.
C7_BothRead ==
    \A p \in Records, r \in Requests :
        InFlight(pipeline[r][p]) => p \in request[r].pendingProducts

\* C7: a scan takes up every record that is pending when the store evaluates
\* it, also one for which another invocation has already dispatched a run,
\* and two runs are in flight on one record only when both scans read it.
C7_NoClaimStep == [](C7_BothRead) /\ [][C7_Step]_vars

\* C7 witness: the runs of both invocations are in their classification
\* calls on the same record.
C7_Witness ==
    \E p \in Records :
        /\ pipeline["trigger"][p].pc \in ClassifyCalls
        /\ pipeline["image"][p].pc \in ClassifyCalls

\* The scan step takes up pending records only, and the runs of an
\* invocation write to the records of its scan only.
C8_Step ==
    \A r \in Requests :
        /\ (request[r].pc = "scanning" /\ request'[r].pc = "scanned")
           => request'[r].pendingProducts \subseteq PendingNow
        /\ pipeline'[r] # pipeline[r]
           => \A p \in Records :
                 product'[p] # product[p] => p \in request[r].pendingProducts

\* Runs exist for the records of the scan only.
C8_RunsOfScan ==
    \A r \in Requests, p \in Records :
        pipeline[r][p].pc # "none" => p \in request[r].pendingProducts

\* C8: a scan takes up only records that are pending when the store
\* evaluates it, runs exist only for the records of the scan, and a step of
\* an invocation's runs changes only documents of its scan.
C8_OnlyPending == [](C8_RunsOfScan) /\ [][C8_Step]_vars

\* C8 witness: an invocation scanned while the record was no longer pending
\* and has returned without a run for it.
C8_Witness ==
    \E r \in Requests, p \in Records :
        /\ request[r].pc = "done"
        /\ request[r].response = "ok"
        /\ request[r].pendingProducts = {}
        /\ pipeline[r][p].pc = "none"
        /\ \E r2 \in Requests \ {r} : pipeline[r2][p].pc = "done"
        /\ Status(p) = "completed"

\* C9: in the step that sends the success response every run of the
\* invocation is still at its first await: nothing has been classified.
C9_RespondsAtDispatch ==
    [][\A r \in Requests :
          (request[r].response = "none" /\ request'[r].response = "ok")
          => \A p \in Records :
                /\ pipeline'[r][p].pc \in {"none", "marking"}
                /\ p \in request[r].pendingProducts
                      => pipeline'[r][p].pc = "marking"]_vars

\* C9 witness: the trigger has responded and a record it took up is
\* processing, its classification still in flight.
C9_Witness ==
    \E p \in Records :
        /\ request["trigger"].response = "ok"
        /\ pipeline["trigger"][p].pc \in ClassifyCalls
        /\ Status(p) = "processing"

\* C10 as stated: after a call that saved an archive neither the extraction
\* directory nor the archive exists.
C10_AlwaysRemoved ==
    \A r \in ImageRequests :
        (request[r].pc = "done" /\ request[r].saved)
        => /\ ~ExistsSync(disk, request[r].originalname.name)
           /\ ~ExistsSync(disk, request[r].originalname.file)

\* C10 amended: after a call that saved an archive neither exists unless a
\* removal of the cleanup threw; when only the unlink threw, the extraction
\* directory is gone.
C10_RemovedUnlessCleanupThrows ==
    \A r \in ImageRequests :
        (request[r].pc = "done" /\ request[r].saved)
        => /\ request[r].cleanupError = "none"
              => /\ ~ExistsSync(disk, request[r].originalname.name)
                 /\ ~ExistsSync(disk, request[r].originalname.file)
           /\ request[r].cleanupError = "unlinkSync"
              => request[r].originalname.name \notin disk.dirs

\* C10 witness: a call that saved its archive, uploaded an image and
\* responded success has left nothing on the disk.
C10_Witness ==
    \E r \in ImageRequests :
        /\ request[r].pc = "done"
        /\ request[r].saved
        /\ request[r].response = "ok"
        /\ request[r].urls = 1
        /\ request[r].cleanupError = "none"
        /\ disk = [files |-> {}, dirs |-> {}]

\* The paths of a call are in use from the saving of the archive to the end
\* of the distribution loops.
ReadsScratch(req) == req.pc \in {"extracting", "uploading", "pushing"}

\* Two calls that use their scratch paths together have different archive
\* paths and different extraction directories.
C11_DisjointPaths ==
    \A r \in ImageRequests : \A q \in ImageRequests \ {r} :
        (ReadsScratch(request[r]) /\ ReadsScratch(request[q]))
        => /\ request[r].originalname.file # request[q].originalname.file
           /\ request[r].originalname.name # request[q].originalname.name

\* The step that ends one call leaves the archive and the extraction
\* directory of another call that is still reading them on the disk.
C11_CleanupStep ==
    \A r \in ImageRequests : \A q \in ImageRequests \ {r} :
        (request[r].pc # "done" /\ request'[r].pc = "done"
           /\ ReadsScratch(request[q]))
        => /\ request[q].originalname.file \in disk.files
              => request[q].originalname.file \in disk'.files
           /\ request[q].originalname.name \in disk.dirs
              => request[q].originalname.name \in disk'.dirs

\* C11: two bulkImageUpload calls in progress together, also of one account,
\* never share an extraction directory or an archive path, and the cleanup of
\* one never removes what the other is still reading.
C11_NoSharedScratch == [](C11_DisjointPaths) /\ [][C11_CleanupStep]_vars

\* C12: an image upload that fails is attempted a second time, and the call
\* ends with the upload's error only when the second attempt has failed too.
C12_UploadRetriedOnce ==
    [][\A r \in ImageRequests :
          (request[r].pc = "uploading" /\ request'[r].pc = "done"
             /\ request'[r].error = "uploadImageToExternalAPI")
          => request[r].attempt = 2]_vars

\* C13: a call rejected for its archive's extension has not written the
\* archive to the disk.
C13_RejectedBeforeWrite ==
    \A r \in ImageRequests :
        request[r].error = "Unsupported file type" => ~request[r].saved

\* The steps of the distribution loops of one call.
C14_Step ==
    \A r \in ImageRequests :
        LET req == request[r]
            after == request'[r]
        IN  /\ (after.pc = "uploading" /\ after # req)
               => /\ req.pc \in {"extracting", "pushing"}
                  /\ after.attempt = 1
                  /\ after.urls = req.urls
            /\ (req.pc = "pushing" /\ after.pc = "uploading")
               => product' = PushImage(product, req.productCode,
                                       <<r, req.urls>>)
            /\ (req.pc = "uploading" /\ after # req)
               => \/ after.pc = "done"
                  \/ /\ after.pc = "pushing"
                     /\ after.urls = req.urls + 1
                     /\ after.productCode = req.productCode

\* C14: a call starts an upload only from the end of the extraction or from
\* the landing of the $push of the image uploaded before, so one upload at a
\* time is in flight, and an acknowledged upload is followed by its $push
\* before anything else.
C14_OneUploadAtATime == [][C14_Step]_vars

\* C14 witness: the second upload of a call is in flight and the URL of the
\* first is in its product's images.
C14_Witness ==
    \E r \in ImageRequests, p \in Records :
        /\ request[r].pc = "uploading"
        /\ request[r].urls = 1
        /\ product[p].images = <<(<<r, 1>>)>>

\* seq extends prefix.
IsPrefix(prefix, seq) ==
    /\ Len(prefix) <= Len(seq)
    /\ \A i \in 1..Len(prefix) : prefix[i] = seq[i]

\* The step of a failing upload, the steps after the end of a call, and the
\* images of every step.
C15_Step ==
    /\ \A r \in ImageRequests :
          LET req == request[r]
              after == request'[r]
          IN  /\ (req.pc = "uploading" /\ after.pc = "done")
                 => /\ after.response = "error"
                    /\ after.error = "uploadImageToExternalAPI"
                    /\ product' = product
                    /\ pipeline' = pipeline
              /\ req.pc = "done" => after = req
    /\ \A p \in Records :
          product[p].exists
          => /\ product'[p].exists
             /\ IsPrefix(product[p].images, product'[p].images)

\* C15: a failed image upload ends the call with one error response, with no
\* further upload, push or dispatch, and no step removes a URL from a
\* product's images.
C15_AbortKeepsLinks == [][C15_Step]_vars

\* C15 witness: a call ended by a failed upload after the URL of its first
\* image was pushed, and that URL is in the product's images.
C15_Witness ==
    \E r \in ImageRequests, p \in Records :
        /\ request[r].pc = "done"
        /\ request[r].error = "uploadImageToExternalAPI"
        /\ request[r].urls = 1
        /\ product[p].images = <<(<<r, 1>>)>>

\* The steps of a call around its call of processProductAI.
C16_Step ==
    \A r \in ImageRequests :
        LET req == request[r]
            after == request'[r]
        IN  /\ (after.response = "ok" /\ req.response # "ok")
               => req.pc \in {"scanning", "scanned"}
            /\ (after.pc = "scanning" /\ req.pc # "scanning")
               => /\ req.pc \in {"extracting", "pushing"}
                  /\ req.pc = "pushing"
                     => product' = PushImage(product, req.productCode,
                                             <<r, req.urls>>)
            /\ (req.pc = "scanning" /\ after # req)
               => \/ after.pc = "scanned"
                  \/ after.pc = "done" /\ after.response = "ok"
            /\ (req.pc = "scanned" /\ after # req)
               => /\ after.pc = "done" /\ after.response = "ok"
                  /\ \A p \in req.pendingProducts :
                        pipeline'[r][p].pc = "marking"
            /\ (after.pc \in {"extracting", "uploading", "pushing"}
                  /\ after # req)
               => req.pc \in {"model", "extracting", "uploading", "pushing"}

\* C16: a call answers success only out of its one call of processProductAI,
\* which it enters when the loops have run out, from the end of the
\* extraction or from the landing of the last $push, and never leaves for
\* the loops again.
C16_TriggersOnce == [][C16_Step]_vars

\* C16 witness: a call that uploaded no image answered success after its
\* scan found a pending record.
C16_Witness ==
    \E r \in ImageRequests :
        /\ request[r].response = "ok"
        /\ request[r].urls = 0
        /\ request[r].pendingProducts # {}

\* The folder name of the call is the code of a stored document.
MatchesProduct(code) == code \in Records /\ product[code].exists

\* The landing of the $push of a folder whose name matches no document.
C17_Step ==
    \A r \in ImageRequests :
        LET req == request[r]
            after == request'[r]
        IN  (req.pc = "pushing" /\ ~MatchesProduct(req.productCode)
               /\ after # req)
            => /\ product' = product
               /\ \/ after.pc \in {"uploading", "scanning"}
                  \/ after.error \in {"updateOne", "readdirSync"}

\* While the $push of such a folder is awaited the call can go on.
C17_GoesOn ==
    \A r \in ImageRequests :
        (request[r].pc = "pushing" /\ ~MatchesProduct(request[r].productCode))
        => ENABLED ImagePushed(r, "end", 0)

\* C17: the $push for a folder whose name matches no product code changes
\* no document and is no error: the call goes on to the next image or folder
\* or to the end of the loops.
C17_NoMatchNoWrite == [](C17_GoesOn) /\ [][C17_Step]_vars

\* C17 witness: a call answered success after uploading an image, with a
\* document in the store and no URL in any document's images.
C17_Witness ==
    \E r \in ImageRequests :
        /\ request[r].response = "ok"
        /\ request[r].urls >= 1
        /\ \E p \in Records : product[p].exists
        /\ \A p \in Records : product[p].images = <<>>

\* A value that is text other than white space.
HasText(value) == value \notin {Undefined, "", " "}

\* Every stored document has a code, a name and a description.
C18_SavedRows ==
    \A p \in Records :
        product[p].exists
        => /\ HasText(product[p].code)
           /\ HasText(product[p].name)
           /\ HasText(product[p].description)

\* A step of the call either stores one document per row of the sheet or
\* ends the call with the collection as it was.
C18_Step ==
    LET inserted == {p \in Records : product'[p].exists /\ ~product[p].exists}
    IN  /\ (upload.pc \in {"idle", "done"} /\ upload' # upload)
           => product' = product
        /\ (upload.pc = "model" /\ upload' # upload)
           => \/ /\ upload'.pc = "done"
                 /\ upload'.response \in {"badRequest", "error"}
                 /\ product' = product
              \/ /\ upload'.pc = "inserted"
                 /\ upload'.ids = inserted
                 /\ Cardinality(inserted) = Len(upload.req.products)
                 /\ \A p \in Records \ inserted : product'[p] = product[p]

AbsentColumns ==
    LET body == upload.req.body
        mapped == {body.codeField, body.nameField, body.descriptionField,
                   body.weightField} \ {Undefined}
    IN  {c \in mapped : upload.req.products[1][c] = Undefined}

\* C19: with every required mapping given, a sheet that lacks a mapped
\* column, of a required or of an optional field, is rejected with the
\* missing-mapped-fields error, which lists exactly the absent columns.
C19_AbsentColumnsReported ==
    [][(/\ upload.pc = "model"
        /\ upload' # upload
        /\ upload'.response # "error"
        /\ upload.req.parsed = "ok"
        /\ Len(upload.req.products) >= 1
        /\ upload.req.body.codeField # Undefined
        /\ upload.req.body.nameField # Undefined
        /\ upload.req.body.descriptionField # Undefined
        /\ AbsentColumns # {})
       => /\ upload'.message = "Mapped fields not found in uploaded file"
          /\ {upload'.data.missingFields[i] :
                 i \in 1..Len(upload'.data.missingFields)} = AbsentColumns]_vars

\* The landing of the stamp, the steps of the call, and the steps that take
\* a record out of the state the call left it in.
C20_Step ==
    /\ (upload.pc = "inserted" /\ upload'.response = "created")
       => /\ upload.ids # {}
          /\ upload'.data.savedProducts = upload.ids
          /\ \A p \in upload.ids :
                product'[p].aiProcessingStatus = "pending"
    /\ upload' # upload => (pipeline' = pipeline /\ request' = request)
    /\ \A p \in Records :
          (Status(p) = "pending" /\ product'[p].aiProcessingStatus # "pending")
          => \E r \in Requests :
                /\ p \in request[r].pendingProducts
                /\ InFlight(pipeline[r][p])
                /\ pipeline'[r][p] # pipeline[r][p]

\* C20: when bulkUploadProducts answers 201 every record it inserted is
\* pending and is returned; no step of the call starts a pipeline run or an
\* orchestrator invocation, and a record leaves pending only by the run of
\* an invocation that scanned it.
C20_PendingUntilTriggered == [][C20_Step]_vars

\* C20 witness: the call answered 201 for two records, both are pending and
\* no orchestrator invocation has been made.
C20_Witness ==
    /\ upload.response = "created"
    /\ Cardinality(upload.ids) = 2
    /\ \A p \in upload.ids : Status(p) = "pending"
    /\ \A r \in Requests : request[r].pc = "idle"

\* The errors a call can end with from each of its positions.
OriginalErrors(pc) ==
    CASE pc = "model" ->
            {"getProductModel", "writeFileSync", "ensureDirSync",
             "Unsupported file type"}
      [] pc = "extracting" -> {"extract", "readdirSync"}
      [] pc = "uploading" -> {"uploadImageToExternalAPI"}
      [] pc = "pushing" -> {"updateOne", "readdirSync"}
      [] OTHER -> {"none"}

\* C21: the step that ends a bulkImageUpload call answers success when it
\* comes out of the call of processProductAI and the error of the failing
\* operation otherwise, whether or not a removal of the cleanup throws: the
\* cleanup error is recorded apart and is never the reported error.
C21_CleanupNeverReported ==
    [][\A r \in ImageRequests :
          LET req == request[r]
              after == request'[r]
          IN  (req.pc \notin {"idle", "done"} /\ after.pc = "done")
              => /\ after.response =
                       IF req.pc \in {"scanning", "scanned"}
                       THEN "ok" ELSE "error"
                 /\ after.error \in OriginalErrors(req.pc)
                 /\ after.error \notin {"removeSync", "unlinkSync"}
                 /\ after.cleanupError \in CleanupFailures]_vars

\* C21 witness: a call that distributed an image answered success although
\* the removal of its archive threw, and the archive is still on the disk.
C21_Witness ==
    \E r \in ImageRequests :
        /\ request[r].pc = "done"
        /\ request[r].response = "ok"
        /\ request[r].error = "none"
        /\ request[r].urls = 1
        /\ request[r].cleanupError = "unlinkSync"
        /\ request[r].originalname.file \in disk.files

\* C22: every step leaves the images of a stored record as they were or
\* appends one URL at their end, the URL of the $push a bulkImageUpload call
\* is awaiting for that record; no URL is removed or moved.
C22_ImagesOnlyGrow ==
    [][\A p \in Records :
          product[p].exists
          => \/ product'[p].images = product[p].images
             \/ \E r \in ImageRequests :
                   /\ request[r].pc = "pushing"
                   /\ request[r].productCode = p
                   /\ product'[p].images =
                         Append(product[p].images, <<r, request[r].urls>>)]_vars

\* C22 witness: one call appended the URLs of two images to a record, in the
\* order of their uploads.
C22_Witness ==
    \E r \in ImageRequests, p \in Records :
        /\ request[r].pc = "done"
        /\ request[r].response = "ok"
        /\ product[p].images = <<(<<r, 1>>), (<<r, 2>>)>>

\* The records a bulkUploadProducts call inserted and left without a status:
\* the call ended between the insert and the stamp.
Unstamped ==
    {p \in Records :
        /\ product[p].exists
        /\ Status(p) = "unset"
        /\ upload.pc = "done"
        /\ p \in upload.ids}

\* C23: a scan of the orchestrator takes up every record that an upload call
\* inserted and never stamped, as it takes up a pending record.
C23_UnstampedScanned ==
    [][\A r \in Requests :
          (request[r].pc = "scanning" /\ request'[r].pc = "scanned")
          => Unstamped \subseteq request'[r].pendingProducts]_vars

\* The steps of one pipeline run, in the order of the callback.
C24_Step ==
    \A r \in Requests, p \in Records :
        LET run == pipeline[r][p]
            after == pipeline'[r][p]
        IN  after # run
            => /\ after.pc = "marking" => run.pc = "none"
               /\ after.pc = "classifyProduct"
                  => \/ run.pc = "classifyProduct"
                     \/ /\ run.pc = "marking"
                        /\ product' = SetStatus(product, p, "processing")
               /\ after.pc = "classifyBOM"
                  => run.pc \in {"classifyProduct", "classifyBOM"}
               /\ after.pc = "classifyManufacturingProcess"
                  => \/ /\ run.pc = "classifyManufacturingProcess"
                        /\ ManufacturingProcessArgs(after)
                              = ManufacturingProcessArgs(run)
                     \/ /\ run.pc = "classifyBOM"
                        /\ run.classifyBOMResult = NoBOM
                        /\ ManufacturingProcessArgs(after) \in BOMResults
               /\ run.pc \in ClassifyCalls
                  => \/ after.pc \in ClassifyCalls
                     \/ after.pc = "catch" /\ after.error = run.pc
                     \/ /\ run.pc = "classifyManufacturingProcess"
                        /\ after.pc \in {"writeCompleted", "writeFailed"}
               /\ run.pc \in {"writeCompleted", "writeFailed", "catch",
                              "done", "rejected"}
                  => after.pc \in {"catch", "done", "rejected"}

\* C24: a run sets its record to processing before classifyProduct is
\* invoked, then invokes classifyProduct, classifyBOM and
\* classifyManufacturingProcess in this order, the last with the result its
\* own classifyBOM call returned; once a call has failed on its retry the run
\* invokes no classification call any more.
C24_CallsInOrder == [][C24_Step]_vars

\* C24 witness: a run is in classifyManufacturingProcess with the BOM result
\* of its classifyBOM call while the run of a sibling record, whose
\* classifyProduct call failed twice, has ended without a further call.
C24_Witness ==
    \E r \in Requests, p \in Records, q \in Records :
        /\ p # q
        /\ pipeline[r][p].pc = "classifyManufacturingProcess"
        /\ ManufacturingProcessArgs(pipeline[r][p]) = 2
        /\ Status(p) = "processing"
        /\ pipeline[r][q].pc = "done"
        /\ pipeline[r][q].error = "classifyProduct"
        /\ Status(q) = "failed"

\* store with the aiProcessingStatus of record p set to s, nothing else.
OnlyStatus(store, p, s) ==
    [q \in Records |->
        IF q = p /\ store[q].exists
        THEN [store[q] EXCEPT !.aiProcessingStatus = s]
        ELSE store[q]]

\* The writes of a run that does not reach the completed update.
C25_Step ==
    \A r \in Requests, p \in Records :
        LET run == pipeline[r][p]
            after == pipeline'[r][p]
        IN  after # run
            => /\ (run.pc \in {"writeFailed", "catch"} /\ after.pc = "done")
                  => product' = OnlyStatus(product, p, "failed")
               /\ (run.pc = "marking" /\ after.pc = "classifyProduct")
                  => product' = OnlyStatus(product, p, "processing")
               /\ (run.pc # "marking" /\ after.pc # "done")
                  => product' = product

\* C25: the final write of a run that ends in failed, from the else branch
\* or from the catch block, changes the aiProcessingStatus of its record and
\* nothing else; the only other write of such a run is the processing mark,
\* so category, subCategory, materials, productManufacturingProcess and the
\* emission figures stay as they were.
C25_FailedWritesStatusOnly == [][C25_Step]_vars

\* C25 witness: a record that one run completed was set to failed by
\* another run and still holds the completed run's classification and
\* emissions.
C25_Witness ==
    \E p \in Records :
        /\ Status(p) = "failed"
        /\ product[p].category = "Cat"
        /\ product[p].subCategory = "Sub"
        /\ product[p].materials \in BOMResults
        /\ product[p].co2Emission > 0
        /\ \A r \in RaceRequests : pipeline[r][p].pc = "done"

\* The value a row has for a target field after the mapping of the request.
MappedValue(req, i, field) ==
    normalizedProduct(req.products[i], fieldMappings(req.body))[field]

\* The keys the claim requires: <<i + 2, f>> stands for "Row <i+2>, <f>",
\* for the rows i = 0 .. n-1 of the sheet.
C26_ExpectedKeys(req) ==
    {key \in {<<i + 2, f>> : i \in 0..(Len(req.products) - 1),
                             f \in {"code", "name", "description"}} :
        ~HasText(MappedValue(req, key[1] - 1, key[2]))}

\* The request passes the checks before the per-row validation.
C26_ReachesValidation(req) ==
    /\ req.file
    /\ req.parsed = "ok"
    /\ Len(req.products) >= 1
    /\ missingMappings(fieldMappings(req.body)) = <<>>
    /\ missingFields(fieldMappings(req.body), fileHeaders(req.products)) = <<>>

\* C26: a call that reaches the per-row validation with a required field
\* missing or blank in some row answers "Validation failed", and the keys of
\* the aggregated error are exactly "Row <i+2>, <f>" for every row i
\* (0-based) and every required field f that is missing or blank after the
\* mapping, whichever row is the first bad one.
C26_AggregatedKeys ==
    [][(upload.pc = "model" /\ upload' # upload)
       => /\ upload'.message = "Validation failed"
             => /\ C26_ReachesValidation(upload.req)
                /\ upload'.data.validationErrors
                      = C26_ExpectedKeys(upload.req)
                /\ upload'.data.validationErrors # {}
          /\ (/\ C26_ReachesValidation(upload.req)
              /\ C26_ExpectedKeys(upload.req) # {}
              /\ upload'.response # "error")
             => upload'.message = "Validation failed"]_vars

Settled(p) == Status(p) \in {"completed", "failed"}

\* C27: when every update of the runs is accepted by the store and every
\* dispatched run is resumed, a record for which a run has been dispatched,
\* or which is processing, eventually is completed or failed.
C27_EventuallySettled ==
    \A p \in Records :
        ((\E r \in Requests : InFlight(pipeline[r][p]))
            \/ Status(p) = "processing")
        ~> Settled(p)

\* C27 witness: the runs of two invocations on one record are both over, one
\* of them after its classifyManufacturingProcess call failed twice, and the
\* record is completed or failed.
C27_Witness ==
    \E p \in Records :
        /\ \A r \in RaceRequests :
              /\ p \in request[r].pendingProducts
              /\ pipeline[r][p].pc = "done"
        /\ \E r \in RaceRequests :
              pipeline[r][p].error = "classifyManufacturingProcess"
        /\ Settled(p)

\* The classification and the emission figures of a document.
ResultFields(doc) ==
    <<doc.category, doc.subCategory, doc.materials,
      doc.productManufacturingProcess, doc.co2Emission,
      doc.co2EmissionRawMaterials, doc.co2EmissionFromProcesses>>

\* What one run holds for these fields of record p when it has the results
\* of its three calls and the emissions computed from them.
RunFields(p, run) ==
    LET raw == calculateRawMaterialEmissions(run.classifyBOMResult,
                                             countryOfOrigin(p))
        process == calculateProcessEmissions(
                       run.classifyManufacturingProcessResult)
    IN  <<run.classifyResult.category, run.classifyResult.subcategory,
          run.classifyBOMResult, run.classifyManufacturingProcessResult,
          raw + process, raw, process>>

\* The fields of a completed record are the results of three calls and the
\* emissions of these results.
C28_Coherent ==
    \A p \in Records :
        (product[p].exists /\ Status(p) = "completed")
        => \E bom \in BOMResults, process \in ProcessResults :
              ResultFields(product[p]) =
                  RunFields(p, [classifyResult |-> FullResult,
                                classifyBOMResult |-> bom,
                                classifyManufacturingProcessResult |-> process])

\* A step that changes one of these fields, or completes the record, is the
\* completed update of one run and sets all of them to that run's values.
C28_Step ==
    \A p \in Records :
        (\/ ResultFields(product'[p]) # ResultFields(product[p])
         \/ /\ product'[p].aiProcessingStatus = "completed"
            /\ Status(p) # "completed")
        => \E r \in Requests :
              /\ pipeline[r][p].pc = "writeCompleted"
              /\ pipeline'[r][p].pc = "done"
              /\ ResultFields(product'[p]) = RunFields(p, pipeline[r][p])
              /\ product'[p].aiProcessingStatus = "completed"

\* C28: the category, subCategory, materials, productManufacturingProcess
\* and the three emission figures of a completed record are those of one
\* run: they change only in the completed update of a run, which sets all of
\* them at once to that run's results, also when two runs process the record
\* together.
C28_FieldsOfOneRun == [](C28_Coherent) /\ [][C28_Step]_vars

\* C28 witness: a record holds the results of the run that completed it
\* while the run of another invocation, whose classifyBOM call returned
\* another result, is about to write its completed update.
C28_Witness ==
    \E p \in Records, r \in Requests, q \in Requests :
        /\ r # q
        /\ Status(p) = "completed"
        /\ pipeline[r][p].pc = "done"
        /\ pipeline[r][p].error = "none"
        /\ pipeline[q][p].pc = "writeCompleted"
        /\ pipeline[q][p].classifyBOMResult # product[p].materials
        /\ pipeline[q][p].classifyManufacturingProcessResult
              = product[p].productManufacturingProcess

\* The step in which the scan of an invocation fails.
C29_Step ==
    \A r \in Requests :
        (request[r].pc = "scanning" /\ request'[r].pc = "done")
        => /\ request'[r].logged = "Error in processProductAI"
           /\ request'[r].response = "ok"
           /\ request'[r].error = "none"
           /\ pipeline' = pipeline
           /\ product' = product

\* An invocation whose scan failed has no run, and triggerAIProcessing never
\* answers an error.
C29_NoRunNoError ==
    /\ \A r \in Requests :
          request[r].logged # "none"
          => /\ request[r].pc = "done"
             /\ request[r].response = "ok"
             /\ \A p \in Records : pipeline[r][p].pc = "none"
    /\ \A r \in TriggerRequests : request[r].response \in {"none", "ok"}

\* C29: a failure of the model lookup or of the pending scan of
\* processProductAI is logged there and goes no further: no run is
\* dispatched and no document changes, triggerAIProcessing and a
\* bulkImageUpload that distributed its images both answer success, and
\* triggerAIProcessing never answers with its error response.
C29_ScanFailureSwallowed == [](C29_NoRunNoError) /\ [][C29_Step]_vars

\* C29 witness: the scans of triggerAIProcessing and of a bulkImageUpload
\* that uploaded an image both failed; both calls answered success, and the
\* record, which has no run, is still pending.
C29_Witness ==
    \E p \in Records :
        /\ Status(p) = "pending"
        /\ \A r \in RaceRequests :
              /\ request[r].pc = "done"
              /\ request[r].response = "ok"
              /\ request[r].logged = "Error in processProductAI"
              /\ pipeline[r][p].pc = "none"
        /\ request["image"].urls = 1

\* The step in which a bulkImageUpload call fails.
C30_Step ==
    \A r \in ImageRequests :
        (request[r].response = "none"
           /\ request'[r].response \in {"error", "badRequest"})
        => /\ request[r].pc \in {"idle", "model", "extracting", "uploading",
                                 "pushing"}
           /\ pipeline' = pipeline
           /\ \A p \in Records :
                 product'[p].aiProcessingStatus = Status(p)

\* A call that failed has made no scan and has no run.
C30_NoInvocation ==
    \A r \in ImageRequests :
        request[r].response \in {"error", "badRequest"}
        => /\ request[r].pendingProducts = {}
           /\ request[r].logged = "none"
           /\ \A p \in Records : pipeline[r][p].pc = "none"

UrlsAdded(r, p) ==
    Cardinality({i \in 1..Len(product[p].images) :
                    product[p].images[i][1] = r})

\* The number of images of the folder of record p that call r uploaded
\* successfully, the folder matching a document.
UploadsOf(r, p) ==
    Cardinality({i \in 1..Len(request[r].uploaded) :
                    request[r].uploaded[i] = p})

\* C31 as stated: after a bulkImageUpload call the number of URLs it added
\* to a matched product equals the number of images of that product's folder
\* it uploaded successfully.
C31_AddedEqualsUploaded ==
    \A r \in ImageRequests, p \in Records :
        (request[r].pc = "done" /\ product[p].exists)
        => UrlsAdded(r, p) = UploadsOf(r, p)

\* The call ended in the rejected $push of an image of the folder of p.
PushRejected(r, p) ==
    /\ request[r].pc = "done"
    /\ request[r].error = "updateOne"
    /\ request[r].uploaded # <<>>
    /\ request[r].uploaded[Len(request[r].uploaded)] = p

\* The URLs of a call in a record and its successful uploads for it.
C31_Counts ==
    \A r \in ImageRequests, p \in Records :
        product[p].exists
        => UrlsAdded(r, p) =
              IF PushRejected(r, p)
              THEN UploadsOf(r, p) - 1
              ELSE UploadsOf(r, p)

\* A URL of a call is appended in the step that follows the acknowledgement
\* of its upload.
C31_Step ==
    \A r \in ImageRequests, p \in Records :
        (product[p].exists
           /\ Len(product'[p].images) > Len(product[p].images)
           /\ product'[p].images[Len(product'[p].images)][1] = r)
        => /\ request[r].pc = "pushing"
           /\ request[r].productCode = p
           /\ request[r].urls >= 1
           /\ product'[p].images =
                 Append(product[p].images, <<r, request[r].urls>>)

\* C31 amended: a URL is appended to a record's images only after the
\* upload of its image has succeeded, and the number of URLs a call added to
\* a matched record equals the number of images of its folder uploaded
\* successfully, unless the call ended in the rejected $push of such an
\* image, which was uploaded and is not in the images: then it is one less.
C31_AddedUnlessPushRejected == [](C31_Counts) /\ [][C31_Step]_vars

\* C31 witness: a call uploaded two images of one folder, the $push of the
\* first landed and the $push of the second was rejected: the record holds
\* one URL of the call.
C31_Witness ==
    \E r \in ImageRequests, p \in Records :
        /\ request[r].pc = "done"
        /\ request[r].error = "updateOne"
        /\ request[r].uploaded = <<p, p>>
        /\ product[p].images = <<(<<r, 1>>)>>

====
